---- MODULE Spec2Model ----
(***************************************************************************)
(* Model of tetra's main loop (src/src/lib.rs): Context as built by        *)
(* ContextBuilder::build, run's fixed-timestep accumulator loop with its   *)
(* event drain, and quit.                                                  *)
(*                                                                         *)
(* Time is counted in whole Duration units.  An f64 number of seconds is   *)
(* represented as a count of 1/Sub units, so that the truncation made by   *)
(* time::f64_to_duration is visible.  dt, the f64 handed to draw, is kept  *)
(* as the exact quotient num/den (f64 rounding is not modelled).           *)
(***************************************************************************)
EXTENDS Integers, Sequences, FiniteSets, TLC

\* ---------------------------------------------------------------- bounds
MaxElapsed == 3       \* largest elapsed sample of one iteration
MaxIter == 2          \* iterations of the loop that are explored
MaxEvents == 2        \* events that reach the platform queue during the run
Sub == 2              \* f64 resolution: 1/Sub of a Duration unit

\* ------------------------------------------------ InputContext (input.rs)
KeyTableLen == 2
KeyIndex == 0 .. (KeyTableLen - 1)
Escape == 0
\* Key codes the platform can deliver; the last one lies beyond the table.
KeyCodes == 0 .. KeyTableLen
NoKey == -1
MousePoints == {<<1, 0>>, <<0, 1>>}
NewKeyState == [k \in KeyIndex |-> FALSE]
NewMousePosition == <<0, 0>>
NoMove == <<-1, -1>>

\* ------------------------------------------------------- sdl2 Event kinds
QuitEvent == [type |-> "Quit", keycode |-> NoKey, pos |-> <<0, 0>>]
KeyDownEvent(k) == [type |-> "KeyDown", keycode |-> k, pos |-> <<0, 0>>]
KeyUpEvent(k) == [type |-> "KeyUp", keycode |-> k, pos |-> <<0, 0>>]
MouseMotionEvent(p) == [type |-> "MouseMotion", keycode |-> NoKey, pos |-> p]
OtherEvent == [type |-> "Other", keycode |-> NoKey, pos |-> <<0, 0>>]
\* A key event without a key code is handled like any other ignored event
\* (lib.rs:166); one such event, a KeyDown, stands for them.
Events ==
    {QuitEvent, OtherEvent}
        \cup {KeyDownEvent(k) : k \in KeyCodes \cup {NoKey}}
        \cup {KeyUpEvent(k) : k \in KeyCodes}
        \cup {MouseMotionEvent(p) : p \in MousePoints}

IsKeyDown(ev) == ev.type = "KeyDown" /\ ev.keycode # NoKey
IsKeyUp(ev) == ev.type = "KeyUp" /\ ev.keycode # NoKey
IsKeyEvent(ev) == IsKeyDown(ev) \/ IsKeyUp(ev)
IsIgnored(ev) == ev.type \notin {"Quit", "MouseMotion"} /\ ~IsKeyEvent(ev)

\* ------------------------------------------------------- time (time.rs)
\* ctx.tick_rate values explored, in 1/Sub units (the build sets one fixed
\* value, 1/60 s; the unit of the model is left open by trying several).
TickRates == {2 * Sub + 1, 3 * Sub}
f64_to_duration(x) == x \div Sub
duration_to_f64(d) == d * Sub

VARIABLES
    pc,                  \* position of run
    running,             \* ctx.running
    quit_on_escape,      \* ctx.quit_on_escape
    ctx_tick_rate,       \* ctx.tick_rate (f64, 1/Sub units)
    tick_rate,           \* run's local tick_rate (Duration)
    lag,                 \* run's local lag (Duration)
    previous_key_state,  \* ctx.input.previous_key_state
    current_key_state,   \* ctx.input.current_key_state
    mouse_position,      \* ctx.input.mouse_position
    queue,               \* events pending in the platform queue
    dt,                  \* last dt passed to draw, [num, den]
    \* ---- history of the run, not read by the program
    iter,                \* iterations entered so far
    arrived,             \* events that have arrived so far
    total_elapsed,       \* sum of the elapsed samples
    n_updates,           \* update invocations so far
    n_draws,             \* draw invocations so far
    n_presents,          \* present invocations so far
    lag_in,              \* lag right after this iteration's sample was added
    updates_iter,        \* update invocations of this iteration
    draws_iter,          \* draw invocations of this iteration
    presents_iter,       \* present invocations of this iteration
    downs_iter,          \* keys with a key-down drained in this iteration
    ups_iter,            \* keys with a key-up drained in this iteration
    last_down,           \* keys whose latest key event of this iteration is a key-down
    held_prev,           \* last_down of the previous iteration
    quit_event_iter,     \* iteration in which a Quit event was drained, or 0
    end_current,         \* current_key_state at the end of the prior iteration
    stop_iter,           \* iteration in which running first became false
    stop_by,             \* what made it false: "event", "update", "draw"
    quit_in_update,      \* user code called quit inside update
    quit_in_draw,        \* user code called quit inside draw
    k_at_quit,           \* whole ticks left in lag when quit ran in update
    updates_after_quit,  \* update invocations after that quit, same iteration
    pre_quit,            \* quit(ctx) was called between build and run (kept
                         \* until the first iteration starts)
    drains_iter,         \* drains of this iteration that have ended
    idle_iter,           \* the elapsed sample of this iteration was 0
    moved_iter,          \* pos of the last MouseMotion drained in this iteration
    moves_iter           \* MouseMotion events drained in this iteration

prog == <<pc, running, quit_on_escape, ctx_tick_rate, tick_rate, lag,
          previous_key_state, current_key_state, mouse_position, queue, dt>>
hist == <<iter, arrived, total_elapsed, n_updates, n_draws, n_presents, lag_in,
          updates_iter, draws_iter, presents_iter, downs_iter, ups_iter,
          last_down, held_prev, quit_event_iter, end_current, stop_iter, stop_by, quit_in_update, quit_in_draw,
          k_at_quit, updates_after_quit>>
hist2 == <<pre_quit, drains_iter, idle_iter, moved_iter, moves_iter>>
vars == <<prog, hist, hist2>>
\* everything of the program but the position of run
prog_data == <<running, quit_on_escape, ctx_tick_rate, tick_rate, lag,
               previous_key_state, current_key_state, mouse_position, queue,
               dt>>

\* ContextBuilder::build and InputContext::new: the state handed to run.
Init ==
    /\ pc = "built"
    /\ running = FALSE
    /\ quit_on_escape \in BOOLEAN
    /\ ctx_tick_rate \in TickRates
    /\ tick_rate = 0
    /\ lag = 0
    /\ previous_key_state = NewKeyState
    /\ current_key_state = NewKeyState
    /\ mouse_position = NewMousePosition
    /\ queue = <<>>
    /\ dt = [num |-> 0, den |-> 1]
    /\ iter = 0
    /\ arrived = 0
    /\ total_elapsed = 0
    /\ n_updates = 0
    /\ n_draws = 0
    /\ n_presents = 0
    /\ lag_in = 0
    /\ updates_iter = 0
    /\ draws_iter = 0
    /\ presents_iter = 0
    /\ downs_iter = {}
    /\ ups_iter = {}
    /\ last_down = {}
    /\ held_prev = {}
    /\ quit_event_iter = 0
    /\ end_current = NewKeyState
    /\ stop_iter = 0
    /\ stop_by = "none"
    /\ quit_in_update = FALSE
    /\ quit_in_draw = FALSE
    /\ k_at_quit = 0
    /\ updates_after_quit = 0
    /\ pre_quit = FALSE
    /\ drains_iter = 0
    /\ idle_iter = FALSE
    /\ moved_iter = NoMove
    /\ moves_iter = 0

\* ------------------------------------------------------------ run (start)
InLoop == pc \in {"check", "poll", "update", "draw", "present", "yield"}

RunPumpFailsStarted ==
    /\ pc = "built"
    /\ running' = TRUE
    /\ pc' = "err"
    /\ UNCHANGED <<quit_on_escape, ctx_tick_rate, tick_rate, lag,
                   previous_key_state, current_key_state, mouse_position,
                   queue, dt>>
    /\ UNCHANGED hist
    /\ UNCHANGED hist2
\* lib.rs:126, ctx.sdl.event_pump() fails: run returns the error.
RunPumpFails ==
    /\ pc = "built"
    /\ pc' = "err"
    /\ UNCHANGED <<running, quit_on_escape, ctx_tick_rate, tick_rate, lag,
                   previous_key_state, current_key_state, mouse_position,
                   queue, dt>>
    /\ UNCHANGED hist
    /\ UNCHANGED hist2

\* lib.rs:187-189, user code calls quit(ctx) on the built context before run.
QuitBeforeRun ==
    /\ pc = "built"
    /\ ~pre_quit
    /\ running' = FALSE
    /\ pre_quit' = TRUE
    /\ UNCHANGED <<pc, quit_on_escape, ctx_tick_rate, tick_rate, lag,
                   previous_key_state, current_key_state, mouse_position,
                   queue, dt>>
    /\ UNCHANGED hist
    /\ UNCHANGED <<drains_iter, idle_iter, moved_iter, moves_iter>>

RunBeginKeepsRunning ==
    /\ pc = "built"
    /\ lag' = 0
    /\ tick_rate' = f64_to_duration(ctx_tick_rate)
    /\ pc' = "check"
    /\ UNCHANGED <<running, quit_on_escape, ctx_tick_rate, previous_key_state,
                   current_key_state, mouse_position, queue, dt>>
    /\ UNCHANGED hist
    /\ UNCHANGED hist2

\* lib.rs:126-132, the pump is obtained: locals are set, running := true.
RunBegin ==
    /\ pc = "built"
    /\ lag' = 0
    /\ tick_rate' = f64_to_duration(ctx_tick_rate)
    /\ running' = TRUE
    /\ pc' = "check"
    /\ UNCHANGED <<quit_on_escape, ctx_tick_rate, previous_key_state,
                   current_key_state, mouse_position, queue, dt>>
    /\ UNCHANGED hist
    /\ UNCHANGED hist2

\* ------------------------------------------------- run (loop, lib.rs:134)
\* lib.rs:138
AddElapsedLost(l, e) == e
AddElapsed(l, e) == l + e

\* lib.rs:140, arrays are Copy: the assignment copies the table.
CopyKeyStateCleared(prev, cur) == NewKeyState
CopyKeyStateStale(prev, cur) == prev
CopyKeyState(prev, cur) == cur

\* lib.rs:134-140: running is true, the iteration samples the clock, adds
\* the elapsed time to lag and snapshots the key table.
LoopEnter ==
    /\ pc = "check"
    /\ running
    /\ iter < MaxIter
    /\ \E elapsed \in 0 .. MaxElapsed :
        /\ lag' = AddElapsed(lag, elapsed)
        /\ lag_in' = lag'
        /\ total_elapsed' = total_elapsed + elapsed
        /\ idle_iter' = (elapsed = 0)
    /\ previous_key_state' = CopyKeyState(previous_key_state, current_key_state)
    /\ pc' = "poll"
    /\ iter' = iter + 1
    /\ updates_iter' = 0
    /\ draws_iter' = 0
    /\ presents_iter' = 0
    /\ downs_iter' = {}
    /\ ups_iter' = {}
    /\ last_down' = {}
    /\ held_prev' = last_down
    /\ drains_iter' = 0
    /\ moved_iter' = NoMove
    /\ moves_iter' = 0
    /\ pre_quit' = FALSE
    /\ UNCHANGED <<running, quit_on_escape, ctx_tick_rate, tick_rate,
                   current_key_state, mouse_position, queue, dt>>
    /\ UNCHANGED <<arrived, n_updates, n_draws, n_presents, quit_event_iter,
                   end_current, stop_iter, stop_by, quit_in_update, quit_in_draw, k_at_quit,
                   updates_after_quit>>

\* lib.rs:134 and 184: running is false, run returns Ok(()).
LoopExit ==
    /\ pc = "check"
    /\ ~running
    /\ pc' = "done"
    /\ UNCHANGED <<running, quit_on_escape, ctx_tick_rate, tick_rate, lag,
                   previous_key_state, current_key_state, mouse_position,
                   queue, dt>>
    /\ UNCHANGED hist
    /\ UNCHANGED hist2

\* ------------------------------------------- event drain, lib.rs:142-168
\* The platform puts an event in its queue.  run reads the queue only in
\* the drain: an event that arrives after the drain has ended stays pending
\* until the drain of the next iteration, so it is let in at the end of the
\* iteration, when a next iteration is to come.
Arrive ==
    /\ pc = "poll" \/ (pc = "yield" /\ running /\ iter < MaxIter)
    /\ arrived < MaxEvents
    /\ \E ev \in Events : queue' = Append(queue, ev)
    /\ arrived' = arrived + 1
    /\ UNCHANGED <<pc, running, quit_on_escape, ctx_tick_rate, tick_rate, lag,
                   previous_key_state, current_key_state, mouse_position, dt>>
    /\ UNCHANGED <<iter, total_elapsed, n_updates, n_draws, n_presents, lag_in,
                   updates_iter, draws_iter, presents_iter, downs_iter,
                   ups_iter, last_down, held_prev, quit_event_iter,
                   end_current, stop_iter, stop_by, quit_in_update,
                   quit_in_draw, k_at_quit, updates_after_quit>>
    /\ UNCHANGED hist2

\* History kept by every step of the drain that takes the head of the queue;
\* stops tells whether the step set running to false.
Drained(stops) ==
    /\ queue' = Tail(queue)
    /\ LET ev == Head(queue)
           k == ev.keycode
       IN /\ downs_iter' = IF IsKeyDown(ev) /\ k \in KeyIndex
                           THEN downs_iter \cup {k} ELSE downs_iter
          /\ ups_iter' = IF IsKeyUp(ev) /\ k \in KeyIndex
                         THEN ups_iter \cup {k} ELSE ups_iter
          /\ last_down' = IF IsKeyDown(ev) /\ k \in KeyIndex
                          THEN last_down \cup {k}
                          ELSE IF IsKeyUp(ev) THEN last_down \ {k}
                          ELSE last_down
          /\ quit_event_iter' = IF ev.type = "Quit" /\ quit_event_iter = 0
                                THEN iter ELSE quit_event_iter
          /\ moved_iter' = IF ev.type = "MouseMotion" THEN ev.pos
                           ELSE moved_iter
          /\ moves_iter' = IF ev.type = "MouseMotion" THEN moves_iter + 1
                           ELSE moves_iter
    /\ stop_iter' = IF stops /\ stop_iter = 0 THEN iter ELSE stop_iter
    /\ stop_by' = IF stops /\ stop_iter = 0 THEN "event" ELSE stop_by
    /\ UNCHANGED <<iter, arrived, total_elapsed, n_updates, n_draws,
                   n_presents, lag_in, updates_iter, draws_iter, presents_iter,
                   held_prev, end_current, quit_in_update, quit_in_draw,
                   k_at_quit, updates_after_quit>>
    /\ UNCHANGED <<pre_quit, drains_iter, idle_iter>>

Polled(type) == pc = "poll" /\ queue # <<>> /\ Head(queue).type = type

\* lib.rs:144
OnQuitIgnored(r) == r
OnQuit(r) == FALSE

DrainQuit ==
    /\ Polled("Quit")
    /\ running' = OnQuit(running)
    /\ Drained(running)
    /\ UNCHANGED <<pc, quit_on_escape, ctx_tick_rate, tick_rate, lag,
                   previous_key_state, current_key_state, mouse_position, dt>>

\* lib.rs:148-152
OnEscapeAlways(k, qoe, r) == IF k = Escape THEN FALSE ELSE r
OnEscape(k, qoe, r) == IF k = Escape /\ qoe THEN FALSE ELSE r

\* lib.rs:154 and 161, an index inside the table.
SetKeyAll(table, k, down) == [j \in KeyIndex |-> down]
SetKeySticky(table, k, down) == [table EXCEPT ![k] = table[k] \/ down]
SetKeyToggle(table, k, down) == [table EXCEPT ![k] = ~table[k]]
SetKey(table, k, down) == [table EXCEPT ![k] = down]

\* lib.rs:145-155, KeyDown { keycode: Some(k) } with k as usize in the table.
DrainKeyDown ==
    /\ Polled("KeyDown")
    /\ Head(queue).keycode \in KeyIndex
    /\ running' = OnEscape(Head(queue).keycode, quit_on_escape, running)
    /\ current_key_state' = SetKey(current_key_state, Head(queue).keycode, TRUE)
    /\ Drained(running /\ ~running')
    /\ UNCHANGED <<pc, quit_on_escape, ctx_tick_rate, tick_rate, lag,
                   previous_key_state, mouse_position, dt>>

\* lib.rs:156-162, KeyUp { keycode: Some(k) } with k as usize in the table.
DrainKeyUp ==
    /\ Polled("KeyUp")
    /\ Head(queue).keycode \in KeyIndex
    /\ current_key_state' = SetKey(current_key_state, Head(queue).keycode, FALSE)
    /\ Drained(FALSE)
    /\ UNCHANGED <<pc, running, quit_on_escape, ctx_tick_rate, tick_rate, lag,
                   previous_key_state, mouse_position, dt>>

\* lib.rs:154 and 161, k as usize beyond the table: the index panics, after
\* the Escape test of a KeyDown has run.
DrainKeyOutOfRange ==
    /\ pc = "poll" /\ queue # <<>> /\ IsKeyEvent(Head(queue))
    /\ Head(queue).keycode \notin KeyIndex
    /\ running' = IF IsKeyDown(Head(queue))
                  THEN OnEscape(Head(queue).keycode, quit_on_escape, running)
                  ELSE running
    /\ pc' = "panicked"
    /\ Drained(running /\ ~running')
    /\ UNCHANGED <<quit_on_escape, ctx_tick_rate, tick_rate, lag,
                   previous_key_state, current_key_state, mouse_position, dt>>

\* lib.rs:164, the position is overwritten with the event's coordinates.
MouseMovedMidway(old, pos) == <<(old[1] + pos[1]) \div 2, (old[2] + pos[2]) \div 2>>
MouseMoved(old, pos) == pos

\* lib.rs:163-165
DrainMouseMotion ==
    /\ Polled("MouseMotion")
    /\ mouse_position' = MouseMoved(mouse_position, Head(queue).pos)
    /\ Drained(FALSE)
    /\ UNCHANGED <<pc, running, quit_on_escape, ctx_tick_rate, tick_rate, lag,
                   previous_key_state, current_key_state, dt>>

\* lib.rs:166, every other event, key events without a key code included.
DrainOther ==
    /\ pc = "poll" /\ queue # <<>> /\ IsIgnored(Head(queue))
    /\ Drained(FALSE)
    /\ UNCHANGED <<pc, running, quit_on_escape, ctx_tick_rate, tick_rate, lag,
                   previous_key_state, current_key_state, mouse_position, dt>>

DrainEndEarly ==
    /\ pc = "poll"
    /\ pc' = "update"
    /\ drains_iter' = drains_iter + 1
    /\ UNCHANGED <<running, quit_on_escape, ctx_tick_rate, tick_rate, lag,
                   previous_key_state, current_key_state, mouse_position,
                   queue, dt>>
    /\ UNCHANGED hist
    /\ UNCHANGED <<pre_quit, idle_iter, moved_iter, moves_iter>>
DrainEndOnQuit ==
    /\ pc = "poll"
    /\ queue = <<>> \/ ~running
    /\ pc' = "update"
    /\ drains_iter' = drains_iter + 1
    /\ UNCHANGED <<running, quit_on_escape, ctx_tick_rate, tick_rate, lag,
                   previous_key_state, current_key_state, mouse_position,
                   queue, dt>>
    /\ UNCHANGED hist
    /\ UNCHANGED <<pre_quit, idle_iter, moved_iter, moves_iter>>
\* lib.rs:142, poll_iter finds the queue empty: the for loop ends.
DrainEnd ==
    /\ pc = "poll"
    /\ queue = <<>>
    /\ pc' = "update"
    /\ drains_iter' = drains_iter + 1
    /\ UNCHANGED <<running, quit_on_escape, ctx_tick_rate, tick_rate, lag,
                   previous_key_state, current_key_state, mouse_position,
                   queue, dt>>
    /\ UNCHANGED hist
    /\ UNCHANGED <<pre_quit, idle_iter, moved_iter, moves_iter>>

\* ---------------------------------------------------- quit, lib.rs:187-189
\* The value of running after a callback that does (q) or does not call quit.
QuitNoEffect(q, r) == r
Quit(q, r) == IF q THEN FALSE ELSE r

\* ------------------------------------------ simulation phase, lib.rs:170-173
\* lib.rs:170
TickDueStrict(l, t) == l > t
TickDueGated(l, t) == running /\ l >= t
TickDue(l, t) == l >= t

\* lib.rs:172
SubTickAll(l, t) == 0
SubTick(l, t) == l - t

\* One turn of the while loop: state.update(ctx), which may call quit(ctx),
\* then lag -= tick_rate.
UpdateStep ==
    /\ pc = "update"
    /\ TickDue(lag, tick_rate)
    /\ lag' = SubTick(lag, tick_rate)
    /\ \E q \in BOOLEAN :
        /\ running' = Quit(q, running)
        /\ quit_in_update' = (quit_in_update \/ q)
        /\ k_at_quit' = IF q /\ ~quit_in_update
                        THEN (lag - tick_rate) \div tick_rate
                        ELSE k_at_quit
        /\ updates_after_quit' = IF quit_in_update
                                 THEN updates_after_quit + 1
                                 ELSE updates_after_quit
        /\ stop_iter' = IF q /\ stop_iter = 0 THEN iter ELSE stop_iter
        /\ stop_by' = IF q /\ stop_iter = 0 THEN "update" ELSE stop_by
    /\ n_updates' = n_updates + 1
    /\ updates_iter' = updates_iter + 1
    /\ UNCHANGED <<pc, quit_on_escape, ctx_tick_rate, tick_rate,
                   previous_key_state, current_key_state, mouse_position,
                   queue, dt>>
    /\ UNCHANGED <<iter, arrived, total_elapsed, n_draws, n_presents, lag_in,
                   draws_iter, presents_iter, downs_iter, ups_iter, last_down,
                   held_prev, quit_event_iter, end_current, quit_in_draw>>
    /\ UNCHANGED hist2

UpdateEndSkipsDraw ==
    /\ pc = "update"
    /\ ~TickDue(lag, tick_rate)
    /\ pc' = "present"
    /\ UNCHANGED <<running, quit_on_escape, ctx_tick_rate, tick_rate, lag,
                   previous_key_state, current_key_state, mouse_position,
                   queue, dt>>
    /\ UNCHANGED hist
    /\ UNCHANGED hist2
\* lib.rs:170, the while condition is false.
UpdateEnd ==
    /\ pc = "update"
    /\ ~TickDue(lag, tick_rate)
    /\ pc' = "draw"
    /\ UNCHANGED <<running, quit_on_escape, ctx_tick_rate, tick_rate, lag,
                   previous_key_state, current_key_state, mouse_position,
                   queue, dt>>
    /\ UNCHANGED hist
    /\ UNCHANGED hist2

\* ---------------------------------------------- render phase, lib.rs:175-181
\* lib.rs:175, dt as the exact quotient of two f64 values.
InterpolationOfLagIn(l, li, tr) == [num |-> duration_to_f64(li), den |-> tr]
Interpolation(l, li, tr) == [num |-> duration_to_f64(l), den |-> tr]

\* lib.rs:175-177: dt is computed and state.draw(ctx, dt) runs, which may
\* call quit(ctx).
Draw ==
    /\ pc = "draw"
    /\ dt' = Interpolation(lag, lag_in, ctx_tick_rate)
    /\ \E q \in BOOLEAN :
        /\ running' = Quit(q, running)
        /\ quit_in_draw' = (quit_in_draw \/ q)
        /\ stop_iter' = IF q /\ stop_iter = 0 THEN iter ELSE stop_iter
        /\ stop_by' = IF q /\ stop_iter = 0 THEN "draw" ELSE stop_by
    /\ n_draws' = n_draws + 1
    /\ draws_iter' = draws_iter + 1
    /\ pc' = "present"
    /\ UNCHANGED <<quit_on_escape, ctx_tick_rate, tick_rate, lag,
                   previous_key_state, current_key_state, mouse_position,
                   queue>>
    /\ UNCHANGED <<iter, arrived, total_elapsed, n_updates, n_presents, lag_in,
                   updates_iter, presents_iter, downs_iter, ups_iter,
                   last_down, held_prev, quit_event_iter, end_current,
                   quit_in_update, k_at_quit, updates_after_quit>>
    /\ UNCHANGED hist2

\* lib.rs:179, graphics::present(ctx).
Present ==
    /\ pc = "present"
    /\ n_presents' = n_presents + 1
    /\ presents_iter' = presents_iter + 1
    /\ pc' = "yield"
    /\ UNCHANGED prog_data
    /\ UNCHANGED <<iter, arrived, total_elapsed, n_updates, n_draws, lag_in,
                   updates_iter, draws_iter, downs_iter, ups_iter, last_down,
                   held_prev, quit_event_iter, end_current, stop_iter, stop_by, quit_in_update, quit_in_draw, k_at_quit,
                   updates_after_quit>>
    /\ UNCHANGED hist2

\* lib.rs:181-182, yield_now and back to the loop condition.
Yield ==
    /\ pc = "yield"
    /\ pc' = "check"
    /\ end_current' = current_key_state
    /\ UNCHANGED prog_data
    /\ UNCHANGED <<iter, arrived, total_elapsed, n_updates, n_draws,
                   n_presents, lag_in, updates_iter, draws_iter, presents_iter,
                   downs_iter, ups_iter, last_down, held_prev,
                   quit_event_iter, stop_iter, stop_by, quit_in_update,
                   quit_in_draw, k_at_quit, updates_after_quit>>
    /\ UNCHANGED hist2

\* ------------------------------------------------------------ specification
\* The steps run itself takes; Arrive is the platform's.
Step ==
    \/ LoopEnter
    \/ LoopExit
    \/ DrainQuit
    \/ DrainKeyDown
    \/ DrainKeyUp
    \/ DrainKeyOutOfRange
    \/ DrainMouseMotion
    \/ DrainOther
    \/ DrainEnd
    \/ UpdateStep
    \/ UpdateEnd
    \/ Draw
    \/ Present
    \/ Yield

Next ==
    \/ QuitBeforeRun
    \/ RunPumpFails
    \/ RunBegin
    \/ Arrive
    \/ Step

Spec == Init /\ [][Next]_vars

\* run is one thread whose callbacks return: a step that can be taken is taken.
FairSpec == Spec /\ WF_vars(Step)

\* ------------------------------------------------------------- properties
InIteration == pc \in {"poll", "update", "draw", "present", "yield"}
\* The step of the drain that takes an event off the queue (Arrive adds one).
Takes == pc = "poll" /\ queue # <<>> /\ queue' = Tail(queue)

\* C1: when draw is invoked, lag is the sum of the elapsed samples minus
\* tick_rate times the number of update invocations, and 0 <= lag < tick_rate;
\* lag is never negative; lag grows only by the elapsed sample and shrinks
\* only by exactly tick_rate, once per update invocation.
C1_AtDraw ==
    pc \in {"draw", "present"} =>
        /\ lag = total_elapsed - n_updates * tick_rate
        /\ 0 <= lag /\ lag < tick_rate
C1_LagStep ==
    /\ lag' > lag =>
        /\ lag' - lag = total_elapsed' - total_elapsed
        /\ n_updates' = n_updates
    /\ lag' < lag => lag' = lag - tick_rate /\ n_updates' = n_updates + 1
    /\ n_updates' # n_updates => lag' = lag - tick_rate
    /\ total_elapsed' # total_elapsed => lag' = lag + (total_elapsed' - total_elapsed)
C1_LagAccounting == [](C1_AtDraw /\ lag >= 0) /\ [][C1_LagStep]_vars
C1_Witness ==
    pc = "draw" /\ iter >= 2 /\ n_updates >= 2 /\ lag > 0 /\ updates_iter >= 1

\* C2: the dt passed to draw satisfies 0 <= dt < 1, and it is 0 when lag plus
\* the elapsed sample of the iteration was a whole multiple of tick_rate.
C2_DtRange ==
    draws_iter = 1 =>
        /\ 0 <= dt.num /\ dt.num < dt.den
        /\ lag_in % tick_rate = 0 => dt.num = 0
C2_Witness ==
    /\ pc = "present" /\ draws_iter = 1
    /\ lag_in >= tick_rate /\ lag_in % tick_rate = 0 /\ dt.num = 0

\* C3: draining a Quit event makes running false, and once the iteration
\* that drained it has finished no update, draw or present call is made.
C3_QuitStep ==
    /\ (Takes /\ Head(queue).type = "Quit") => ~running'
    /\ (quit_event_iter # 0 /\ pc \in {"check", "done"}) =>
        /\ n_updates' = n_updates
        /\ n_draws' = n_draws
        /\ n_presents' = n_presents
C4_EscapeStep ==
    (Takes /\ Head(queue) = KeyDownEvent(Escape)) =>
        /\ running' = (IF quit_on_escape THEN FALSE ELSE running)
        /\ pc' # "panicked" /\ current_key_state'[Escape]
C4_EscapeKeyDown == [][C4_EscapeStep]_vars
C4_Witness ==
    /\ pc = "poll" /\ Escape \in downs_iter
    /\ ~quit_on_escape /\ running /\ current_key_state[Escape]

\* C5: an iteration starts by copying current_key_state into
\* previous_key_state; for the rest of the iteration previous_key_state is
\* what current_key_state was at the end of the prior iteration, and it
\* equals current_key_state when the iteration drained no key event.
C5_InIteration ==
    (InIteration \/ pc = "panicked") =>
        /\ previous_key_state = end_current
        /\ (InIteration /\ downs_iter \cup ups_iter = {}) =>
              previous_key_state = current_key_state
C5_EnterStep ==
    (pc = "check" /\ pc' = "poll") => previous_key_state' = current_key_state
C5_PreviousIsSnapshot == []C5_InIteration /\ [][C5_EnterStep]_vars
C5_Witness ==
    /\ pc = "update" /\ iter >= 2
    /\ end_current # NewKeyState
    /\ previous_key_state # current_key_state

\* C6: a key held since the previous iteration whose key-down is drained
\* again (key repeat), with no key-up in this iteration, is down but not
\* just pressed.
Repeated(K) == K \in held_prev /\ K \in downs_iter /\ K \notin ups_iter
C6_RepeatNotJustPressed ==
    \A K \in KeyIndex :
        (InIteration /\ Repeated(K)) =>
            /\ current_key_state[K]
            /\ ~(current_key_state[K] /\ ~previous_key_state[K])
C6_Witness ==
    pc = "update" /\ \E K \in KeyIndex : Repeated(K) /\ K # Escape

\* C7: when an event drained in an iteration sets running to false, that
\* iteration still runs one update per whole tick_rate in lag, then draw
\* once and present once, and then the loop exits.
C7_IterationCompleted ==
    /\ pc = "done"
    /\ updates_iter = lag_in \div tick_rate
    /\ draws_iter = 1
    /\ presents_iter = 1
C7_QuitInDrainCompletesIteration ==
    (pc = "poll" /\ stop_by = "event" /\ stop_iter = iter)
        ~> C7_IterationCompleted

\* C8: after quit(ctx) inside update with k >= 1 whole ticks left in lag,
\* the k remaining updates of the iteration are made, draw and present run
\* once, and the loop stops at the next check of running and nowhere else;
\* after quit(ctx) inside draw, present still runs before the loop exits.
C8_AfterUpdates ==
    (quit_in_update /\ pc \in {"draw", "present", "yield", "check", "done"}) =>
        /\ updates_after_quit = k_at_quit
        /\ updates_iter = lag_in \div tick_rate
C8_AtCheck ==
    ((quit_in_update \/ quit_in_draw) /\ pc \in {"check", "done"}) =>
        /\ draws_iter = 1
        /\ presents_iter = 1
        /\ stop_iter = iter
C8_ExitStep == (pc # "done" /\ pc' = "done") => (pc = "check" /\ ~running)
\* The calls are made, not only counted when reached: once quit has run in a
\* callback, run always has a step to take and every step brings it closer
\* to its return (C8_Rank steps at most are left).
C8_QuitPending == quit_in_update \/ quit_in_draw
C8_Rank ==
    CASE pc = "update" -> 5 + lag \div tick_rate
      [] pc = "draw" -> 4
      [] pc = "present" -> 3
      [] pc = "yield" -> 2
      [] pc = "check" -> 1
      [] pc = "done" -> 0
      [] OTHER -> 5 + MaxElapsed * MaxIter + MaxEvents + 1
C8_RankStep == C8_QuitPending => C8_Rank' < C8_Rank
C8_Progress == (C8_QuitPending /\ pc # "done") => ENABLED Step
C8_QuitIsCooperative ==
    /\ [](C8_AfterUpdates /\ C8_AtCheck /\ C8_Progress)
    /\ [][C8_ExitStep /\ C8_RankStep]_vars
\* The same progress as a leads-to, under FairSpec.
C8_QuitLeadsToReturn == C8_QuitPending ~> pc = "done"
C8_Witness ==
    /\ pc = "done" /\ quit_in_update /\ stop_by = "update"
    /\ k_at_quit >= 1 /\ updates_after_quit >= 1

\* C9: once running has become false, run returns Ok, and it does so at the
\* end of the iteration in which running became false.
C9_RunReturns ==
    /\ [](pc = "done" => stop_iter = iter)
    /\ ((stop_iter # 0) ~> pc = "done")

\* C10: a key-down or key-up whose key code lies outside the key-state
\* table is ignored: the loop goes on (no panic) and both key-state tables
\* stay as they were.
C10_Step ==
    (Takes /\ IsKeyEvent(Head(queue)) /\ Head(queue).keycode \notin KeyIndex) =>
        /\ pc' = "poll"
        /\ current_key_state' = current_key_state
        /\ previous_key_state' = previous_key_state
C10_OutOfRangeKeyIgnored == [][C10_Step]_vars

\* C11: when the event pump cannot be obtained, run returns the error at
\* once: the failing step leaves ctx.running as it was (false, never set to
\* true), no update, draw or present has been or will be called, and run
\* takes no further step.
C11_FailStep ==
    (pc = "built" /\ pc' = "err")
        => /\ running' = running
           /\ <<n_updates, n_draws, n_presents, iter>>'
                  = <<n_updates, n_draws, n_presents, iter>>
C11_AtErr ==
    pc = "err" => /\ ~running
                  /\ n_updates = 0 /\ n_draws = 0 /\ n_presents = 0
                  /\ iter = 0
C11_PumpFailureReturnsError ==
    /\ []C11_AtErr
    /\ [][C11_FailStep /\ pc # "err"]_vars
C11_Witness == pc = "err" /\ ~running /\ n_draws = 0

\* C12: every iteration does its steps in one fixed order, each once except
\* update: sample and add to lag, copy current into previous, one full
\* drain, zero or more updates, one draw, one present, one yield.  No update
\* or draw comes before the end of the drain of its iteration, and present
\* follows draw.
C12_Calls == <<drains_iter, draws_iter, presents_iter>>
C12_Position ==
    /\ pc = "poll" => C12_Calls = <<0, 0, 0>> /\ updates_iter = 0
    /\ pc = "update" => C12_Calls = <<1, 0, 0>>
    /\ pc = "draw" => C12_Calls = <<1, 0, 0>>
    /\ pc = "present" => C12_Calls = <<1, 1, 0>>
    /\ pc = "yield" => C12_Calls = <<1, 1, 1>>
    /\ (pc \in {"check", "done"} /\ iter >= 1) => C12_Calls = <<1, 1, 1>>
C12_OrderStep ==
    /\ (iter' # iter)
           => /\ pc' = "poll"
              /\ lag' >= lag
              /\ previous_key_state' = current_key_state
              /\ current_key_state' = current_key_state
    /\ (lag' > lag \/ previous_key_state' # previous_key_state)
           => iter' = iter + 1
    /\ Takes => pc' \in {"poll", "panicked"}
    /\ (updates_iter' > updates_iter)
           => /\ C12_Calls = <<1, 0, 0>> /\ queue = <<>>
              /\ updates_iter' = updates_iter + 1
    /\ (draws_iter' > draws_iter)
           => C12_Calls = <<1, 0, 0>> /\ queue = <<>> /\ pc' = "present"
    /\ (presents_iter' > presents_iter)
           => C12_Calls = <<1, 1, 0>> /\ pc' = "yield"
    /\ (pc = "yield" /\ pc' # "yield")
           => C12_Calls = <<1, 1, 1>> /\ pc' = "check"
C13_AfterUpdates ==
    (pc \in {"draw", "present", "yield"} \/ (pc = "check" /\ iter >= 1))
        => /\ updates_iter = lag_in \div tick_rate
           /\ idle_iter => updates_iter = 0 /\ lag = lag_in
C13_DuringUpdates ==
    pc = "update" => /\ updates_iter <= lag_in \div tick_rate
                     /\ idle_iter => ~TickDue(lag, tick_rate)
C13_Step ==
    /\ (iter' # iter)
           => LET sample == total_elapsed' - total_elapsed
              IN /\ lag_in' = lag + sample
                 /\ lag_in' \div tick_rate >= sample \div tick_rate
                 /\ idle_iter' = (sample = 0)
                 /\ idle_iter' => lag' = lag
    /\ (draws_iter' > draws_iter /\ idle_iter /\ iter >= 2) => dt' = dt
C13_CatchUp ==
    /\ pc = "draw" /\ updates_iter >= 2
    /\ updates_iter = lag_in \div tick_rate
C14_IsArrival == arrived' = arrived + 1 /\ queue' # queue
C14_Handled(ev) ==
    CASE ev.type = "Quit" -> ~running'
      [] ev.type = "MouseMotion" -> mouse_position' = ev.pos
      [] IsKeyDown(ev) /\ ev.keycode \in KeyIndex
             -> current_key_state'[ev.keycode]
      [] IsKeyUp(ev) /\ ev.keycode \in KeyIndex
             -> ~current_key_state'[ev.keycode]
      [] IsKeyEvent(ev) /\ ev.keycode \notin KeyIndex -> pc' = "panicked"
      [] OTHER -> UNCHANGED <<running, current_key_state, mouse_position>>
C14_QueueStep ==
    \* the queue changes by an arrival at its end or by a take of its head
    /\ (queue' # queue)
           => \/ C14_IsArrival /\ queue = SubSeq(queue', 1, Len(queue))
                               /\ Len(queue') = Len(queue) + 1
              \/ Takes /\ arrived' = arrived
    \* a take is made inside the one drain of the iteration and handles the
    \* event it takes
    /\ Takes => /\ drains_iter = 0 /\ drains_iter' = 0
                /\ C14_Handled(Head(queue))
    \* the drain ends on an empty queue, and on an empty queue run does
    \* nothing but end the drain
    /\ (drains_iter' # drains_iter /\ iter' = iter)
           => /\ pc = "poll" /\ queue = <<>> /\ queue' = <<>>
              /\ drains_iter' = 1 /\ pc' = "update"
    /\ (pc = "poll" /\ queue = <<>> /\ ~C14_IsArrival) => pc' = "update"
    \* every step of the drain shortens the queue or leaves the drain
    /\ (pc = "poll" /\ ~C14_IsArrival)
           => (Len(queue') < Len(queue) \/ pc' # "poll")
C14_DrainCanStep == pc = "poll" => ENABLED Step
C14_DrainLeadsToEnd == (pc = "poll") ~> (pc # "poll")
\* an event that arrived after the drain of the first iteration is pending
\* at the loop check, not polled
C14_PendingAfterDrain ==
    pc = "check" /\ iter = 1 /\ drains_iter = 1 /\ Len(queue) = 1
C15_OnlyKey(K) ==
    \A j \in KeyIndex \ {K} : current_key_state'[j] = current_key_state[j]
C15_EventStep ==
    Takes =>
        LET ev == Head(queue)
        IN /\ UNCHANGED <<previous_key_state, lag, tick_rate, ctx_tick_rate,
                          quit_on_escape, dt>>
           /\ IsIgnored(ev)
                  => UNCHANGED <<running, current_key_state, mouse_position>>
           /\ ev.type = "Quit"
                  => UNCHANGED <<current_key_state, mouse_position>>
           /\ ev.type = "MouseMotion"
                  => UNCHANGED <<running, current_key_state>>
           /\ IsKeyEvent(ev)
                  => /\ mouse_position' = mouse_position
                     /\ IF ev.keycode \in KeyIndex
                        THEN C15_OnlyKey(ev.keycode)
                        ELSE current_key_state' = current_key_state
                     /\ (running' # running)
                            => /\ IsKeyDown(ev) /\ ev.keycode = Escape
                               /\ quit_on_escape
C15_EventFrame == [][C15_EventStep]_vars
\* key 1 went down and the pointer moved: key 0, previous_key_state and
\* running are as they were
C15_Witness ==
    /\ pc = "poll" /\ iter = 1 /\ running
    /\ downs_iter = {1} /\ moves_iter = 1
    /\ current_key_state = [NewKeyState EXCEPT ![1] = TRUE]
    /\ previous_key_state = NewKeyState
    /\ mouse_position = moved_iter

\* C16: after the drain the pointer position is that of the last
\* pointer-moved event drained in the iteration (last writer wins, nothing
\* is averaged), and the position held before the drain when no such event
\* was drained.
C16_Moved == moved_iter # NoMove => mouse_position = moved_iter
C16_MoveStep ==
    /\ (Takes /\ Head(queue).type = "MouseMotion")
           => mouse_position' = Head(queue).pos
    /\ (mouse_position' # mouse_position)
           => Takes /\ Head(queue).type = "MouseMotion"
    /\ (iter' = iter /\ moves_iter' = moves_iter)
           => mouse_position' = mouse_position
C16_PointerLastWriterWins == []C16_Moved /\ [][C16_MoveStep]_vars
\* a second iteration drained no pointer-moved event and holds the position
\* the first one left
C16_HeldPosition ==
    /\ pc = "update" /\ iter = 2 /\ moves_iter = 0
    /\ mouse_position \in MousePoints
\* two pointer-moved events drained in one drain
C16_Witness ==
    /\ pc = "update" /\ drains_iter = 1
    /\ moves_iter = 2
    /\ mouse_position = moved_iter

\* C17: key events are not buffered.  When a key-down and then a key-up for
\* a key K that was up are drained in one drain, K is up in both tables at
\* every update invocation of the iteration: no update observes K as down
\* or as just released.  Such executions are reachable (C17_Witness), with
\* updates that run and a run that returns without having seen the key.
C17_Tapped(K) ==
    /\ K \in downs_iter /\ K \in ups_iter
    /\ K \notin last_down
    /\ ~end_current[K]
C17_Unobserved(K) == ~current_key_state[K] /\ ~previous_key_state[K]
C17_AtUpdate ==
    \A K \in KeyIndex :
        (pc \in {"update", "draw", "present", "yield"} /\ C17_Tapped(K))
            => C17_Unobserved(K)
C17_UpdateStep ==
    \A K \in KeyIndex :
        (updates_iter' > updates_iter /\ C17_Tapped(K))
            => C17_Unobserved(K) /\ C17_Unobserved(K)'
C17_TapNeverObserved == []C17_AtUpdate /\ [][C17_UpdateStep]_vars
C17_Witness ==
    /\ pc = "done" /\ iter = 1
    /\ n_updates >= 1 /\ n_updates = updates_iter
    /\ \E K \in KeyIndex : C17_Tapped(K) /\ C17_Unobserved(K)

\* C18: run sets running to true before its first loop check, so a quit(ctx)
\* made between build and run has no effect: the first check finds running
\* true and enters the loop, running stays true until a quit request made
\* inside the loop, and run returns only after at least one full iteration
\* (drain, updates, draw, present).
C18_FirstCheck == (pc = "check" /\ iter = 0) => running /\ stop_iter = 0
C18_RunsUntilQuit == (InLoop /\ stop_iter = 0) => running
C18_AtReturn ==
    pc = "done" => /\ iter >= 1 /\ stop_iter >= 1
                   /\ n_draws >= 1 /\ n_presents >= 1
                   /\ drains_iter = 1
C18_BeginStep ==
    /\ (pc = "built" /\ pc' = "check") => running'
    /\ (pc = "check" /\ iter = 0) => pc' = "poll" /\ iter' = 1
C19_Applied(ev) ==
    /\ (IsKeyDown(ev) /\ ev.keycode \in KeyIndex)
           => current_key_state' = [current_key_state EXCEPT ![ev.keycode] = TRUE]
    /\ (IsKeyUp(ev) /\ ev.keycode \in KeyIndex)
           => current_key_state' = [current_key_state EXCEPT ![ev.keycode] = FALSE]
    /\ ev.type = "MouseMotion" => mouse_position' = ev.pos
C19_Step ==
    /\ (pc # "built" /\ ~running) => ~running'
    /\ (pc = "poll" /\ ~running /\ queue # <<>> /\ arrived' = arrived)
           => /\ Takes
              /\ C19_Applied(Head(queue))
    /\ (pc = "poll" /\ ~running /\ pc' = "update") => queue = <<>>
C19_QueuedAfterQuit ==
    /\ pc = "poll" /\ ~running /\ quit_event_iter = iter
    /\ arrived = 2 /\ Len(queue) = 1
    /\ IsKeyDown(Head(queue)) /\ Head(queue).keycode \in KeyIndex
C20_Edge(K) == current_key_state[K] /\ ~previous_key_state[K]
C20_Pressed(K) == K \in downs_iter /\ K \in last_down /\ ~end_current[K]
C20_StillDown(K) == end_current[K] /\ K \notin ups_iter
C20_InIteration ==
    \A K \in KeyIndex :
        /\ (pc \in {"update", "draw", "present", "yield"} /\ C20_Pressed(K))
               => C20_Edge(K)
        /\ (InIteration /\ C20_StillDown(K))
               => ~C20_Edge(K) /\ current_key_state[K]
C20_EdgeStep ==
    \A K \in KeyIndex :
        /\ (updates_iter' > updates_iter /\ C20_Pressed(K))
               => C20_Edge(K) /\ C20_Edge(K)'
        /\ (updates_iter' > updates_iter /\ C20_StillDown(K))
               => ~C20_Edge(K) /\ ~C20_Edge(K)'
        /\ (iter' # iter) => ~C20_Edge(K)'
C20_EdgePerIteration == []C20_InIteration /\ [][C20_EdgeStep]_vars
\* the edge is seen by each of the two catch-up updates of one iteration
C20_SeenPerTick ==
    /\ pc = "draw" /\ updates_iter >= 2
    /\ \E K \in KeyIndex : C20_Pressed(K) /\ C20_Edge(K)
\* K went down in an iteration without updates; the updates of the next
\* iteration, the first of the run, find K down in both tables
C20_Witness ==
    /\ pc = "draw" /\ iter = 2
    /\ updates_iter >= 1 /\ n_updates = updates_iter
    /\ \E K \in KeyIndex :
           /\ K \in held_prev /\ C20_StillDown(K) /\ K \notin downs_iter
           /\ current_key_state[K] /\ previous_key_state[K]

====
